---------------------------- MODULE Spec2Model ----------------------------
(***************************************************************************)
(* The two Streamlit scripts of the repository, dashboard.py and dash.py,  *)
(* as a state machine.  Both read the same file, data_airbnb.csv.  A       *)
(* Streamlit script runs top to bottom once when the session starts and    *)
(* once more every time a sidebar widget changes value; every action below *)
(* is one such whole run: load, widgets, filter, aggregates.               *)
(*                                                                         *)
(* Numbers read from the CSV are kept in hundredths (a price of 309.50 is  *)
(* 30950), slider positions are whole dollars / whole beds as in the code. *)
(***************************************************************************)
EXTENDS Integers, Sequences, FiniteSets, TLC

VARIABLES
    script,                         \* which script the session runs
    csv,                            \* data_airbnb.csv: [columns, rows]
    status,                         \* "init", "rendered" or "error" (uncaught exception)
    widgets,                        \* the filter dimensions the sidebar offers
    df,                             \* the loaded table (dashboard.py:9-12, dash.py:11)
    filtered_df,                    \* dashboard.py filtered_df; dash.py df after line 61
    price_range,                    \* dashboard.py:17
    beds_range,                     \* dashboard.py:19
    listings_count,                 \* dashboard.py:61
    top10,                          \* dashboard.py:78
    room_types,                     \* dash.py:17
    min_price,                      \* dash.py:20
    max_price,                      \* dash.py:21
    neighbourhood_groups,           \* dash.py:22
    selected_neighbourhood_group,   \* dash.py:40
    selected_room_type,             \* dash.py:45
    selected_price,                 \* dash.py:48
    kpis,                           \* dash.py:76-85
    map_out                         \* dash.py:156-182

vars == <<script, csv, status, widgets, df, filtered_df, price_range, beds_range,
          listings_count, top10, room_types, min_price, max_price,
          neighbourhood_groups, selected_neighbourhood_group, selected_room_type,
          selected_price, kpis, map_out>>

dashboardVars == <<price_range, beds_range, listings_count, top10>>

dashVars == <<room_types, min_price, max_price, neighbourhood_groups,
              selected_neighbourhood_group, selected_room_type, selected_price,
              kpis, map_out>>

(***************************************************************************)
(* Bounds of the model.                                                    *)
(***************************************************************************)
MaxRows == 2            \* rows of data_airbnb.csv
MaxRowsTop == 11        \* rows of data_airbnb.csv in the ranking specification
MaxDrag == 1            \* slider steps the handles of the sidebar are away from their defaults, in all

(***************************************************************************)
(* Program constants.                                                      *)
(***************************************************************************)
PriceSliderMin == 0
PriceSliderMax == 500
PriceSliderStep == 10
PriceDefaultLo == 50
PriceDefaultHi == 300
BedsSliderMin == 1
BedsSliderMax == 8
BedsDefaultLo == 1
BedsDefaultHi == 4
TopN == 10
FallbackMinPrice == 0
FallbackMaxPrice == 1000
NoMapMessage == "No map data available for the selected filters."

(***************************************************************************)
(* CSV cells.  A numeric cell carries its value in hundredths; NaN is an   *)
(* empty cell; Text is a cell holding non-numeric text ("No rating").  A   *)
(* string column holds a string, "" when the cell is empty.                *)
(***************************************************************************)
Num(x) == [k |-> "num", v |-> x]
NaN == [k |-> "nan", v |-> 0]
Text == [k |-> "text", v |-> 0]
IsNum(c) == c.k = "num"

Columns == {"name", "neighbourhood_group", "room_type", "price", "beds",
            "latitude", "longitude", "rating"}

\* The columns dash.py tests with `in df.columns`.
OptionalColumns == {"neighbourhood_group", "room_type", "price",
                    "latitude", "longitude", "rating"}

Row(n, g, t, p, b, la, lo, ra) ==
    [name |-> n, neighbourhood_group |-> g, room_type |-> t, price |-> p,
     beds |-> b, latitude |-> la, longitude |-> lo, rating |-> ra]

\* The rows the CSV is drawn from: clean rows on and around the slider
\* defaults, and one row for each kind of defect.
RowPool ==
    { Row("A", "Bronx",    "Private room",    Num(5000),  Num(100), Num(4070), Num(-7390), Num(450)),
      Row("",  "Brooklyn", "Entire home/apt", Num(30950), Num(400), Num(4068), Num(-7395), Text),
      Row("C", "",         "",                Num(30000), Num(500), Num(4071), Num(-7392), NaN),
      Row("D", "Brooklyn", "Private room",    Text,       Num(200), Num(4069), Num(-7394), Num(400)),
      Row("E", "Bronx",    "Entire home/apt", Num(10000), Text,     Num(4072), Num(-7391), Num(500)),
      Row("F", "Brooklyn", "Private room",    NaN,        Num(300), NaN,       Num(-7393), Num(300)),
      Row("G", "Bronx",    "Private room",    Num(6000),  NaN,      Num(4073), NaN,        Num(475)) }

\* The rows of the ranking specification: clean rows, many of them tied, one
\* of them above the default price range.
TopPool ==
    { Row("A", "Bronx",    "Private room",    Num(30000), Num(100), Num(4070), Num(-7390), Num(450)),
      Row("B", "Brooklyn", "Entire home/apt", Num(6000),  Num(200), Num(4068), Num(-7395), Num(400)),
      Row("H", "Queens",   "Private room",    Num(31000), Num(300), Num(4074), Num(-7380), Num(425)) }

\* The first rows of every file of the ranking specification.
TopPrefix ==
    [i \in 1..(TopN - 2) |->
        IF i % 2 = 1
        THEN Row("A", "Bronx",    "Private room",    Num(30000), Num(100), Num(4070), Num(-7390), Num(450))
        ELSE Row("B", "Brooklyn", "Entire home/apt", Num(6000),  Num(200), Num(4068), Num(-7395), Num(400))]

Tables(pool, lo, hi) == UNION { [1..n -> pool] : n \in lo..hi }

\* A file without a column has no cell of it.
Mask(r, cols) ==
    Row(IF "name" \in cols THEN r.name ELSE "",
        IF "neighbourhood_group" \in cols THEN r.neighbourhood_group ELSE "",
        IF "room_type" \in cols THEN r.room_type ELSE "",
        IF "price" \in cols THEN r.price ELSE NaN,
        IF "beds" \in cols THEN r.beds ELSE NaN,
        IF "latitude" \in cols THEN r.latitude ELSE NaN,
        IF "longitude" \in cols THEN r.longitude ELSE NaN,
        IF "rating" \in cols THEN r.rating ELSE NaN)

CsvFile(cols, t) == [columns |-> cols, rows |-> [i \in DOMAIN t |-> Mask(t[i], cols)]]

\* The header of the file: every column, or every column but one of those
\* dash.py can do without.
ColumnSets ==
    {Columns} \cup { Columns \ {c} : c \in OptionalColumns }

(***************************************************************************)
(* Helpers of the dataframe library, as the scripts use them.              *)
(***************************************************************************)
RECURSIVE Sum(_)
Sum(s) == IF s = <<>> THEN 0 ELSE Head(s) + Sum(Tail(s))

Min(S) == CHOOSE x \in S : \A y \in S : x <= y
Max(S) == CHOOSE x \in S : \A y \in S : x >= y

\* Python's int() of a float: truncation toward zero.
Trunc(x) == IF x >= 0 THEN x \div 100 ELSE -((-x) \div 100)

\* series >= n and series <= n: a comparison with a missing value is False.
Ge(c, n) == IsNum(c) /\ c.v >= n * 100
Le(c, n) == IsNum(c) /\ c.v <= n * 100

\* pd.to_numeric(errors="coerce")
ToNumeric(c) == IF c.k = "text" THEN NaN ELSE c

\* pd.read_csv: one record per line of the file, labelled 0, 1, 2, ...
ReadCsvStale(c) ==
    IF status = "rendered" THEN filtered_df
    ELSE [i \in DOMAIN c.rows |->
            [idx |-> i - 1, name |-> c.rows[i].name,
             neighbourhood_group |-> c.rows[i].neighbourhood_group,
             room_type |-> c.rows[i].room_type, price |-> c.rows[i].price,
             beds |-> c.rows[i].beds, latitude |-> c.rows[i].latitude,
             longitude |-> c.rows[i].longitude, rating |-> c.rows[i].rating]]

ReadCsv(c) ==
    [i \in DOMAIN c.rows |->
        [idx |-> i - 1, name |-> c.rows[i].name,
         neighbourhood_group |-> c.rows[i].neighbourhood_group,
         room_type |-> c.rows[i].room_type, price |-> c.rows[i].price,
         beds |-> c.rows[i].beds, latitude |-> c.rows[i].latitude,
         longitude |-> c.rows[i].longitude, rating |-> c.rows[i].rating]]

(***************************************************************************)
(* dashboard.py                                                            *)
(***************************************************************************)
\* dashboard.py:10-11
Coerce(d) ==
    [i \in DOMAIN d |-> [d[i] EXCEPT !.price = ToNumeric(@), !.beds = ToNumeric(@)]]

\* dashboard.py:12
DropNa(d) ==
    SelectSeq(d, LAMBDA r : /\ r.latitude.k # "nan" /\ r.longitude.k # "nan"
                            /\ r.price.k # "nan" /\ r.beds.k # "nan")

LoadAndCleanKeepText(c) ==
    DropNa(ReadCsv(c))

\* dashboard.py:9-12
LoadAndClean(c) ==
    DropNa(Coerce(ReadCsv(c)))

FilteredDfExclusive(d, pr, br) ==
    SelectSeq(d, LAMBDA r : /\ Ge(r.price, pr[1]) /\ Le(r.price, pr[2])
                            /\ Ge(r.beds, br[1]) /\ ~Ge(r.beds, br[2]))

FilteredDfPriceOnly(d, pr, br) ==
    SelectSeq(d, LAMBDA r : Ge(r.price, pr[1]) /\ Le(r.price, pr[2]))

\* dashboard.py:22-27
FilteredDf(d, pr, br) ==
    SelectSeq(d, LAMBDA r : /\ Ge(r.price, pr[1]) /\ Le(r.price, pr[2])
                            /\ Ge(r.beds, br[1]) /\ Le(r.beds, br[2]))

\* dashboard.py:61-64  groupby("neighbourhood_group")["name"].count(): one
\* group per non-missing key, counting the group's non-missing names.
ListingsCount(f) ==
    LET keys == { f[i].neighbourhood_group : i \in DOMAIN f } \ {""}
    IN  [g \in keys |->
            Cardinality({ i \in DOMAIN f : /\ f[i].neighbourhood_group = g
                                           /\ f[i].name # "" })]

\* sort_values(by="price", ascending=False): missing prices last; the default
\* sort is not stable, so rows of equal price come in either order.
TieOrders == {"stable", "reversed"}

Before(r, h, tie) ==
    \/ IsNum(r.price) /\ ~IsNum(h.price)
    \/ IsNum(r.price) /\ IsNum(h.price) /\ r.price.v > h.price.v
    \/ (r.price.k = h.price.k) /\ (r.price.v = h.price.v) /\ tie = "stable"

RECURSIVE InsertDesc(_, _, _)
InsertDesc(r, s, tie) ==
    IF s = <<>> THEN <<r>>
    ELSE IF Before(r, Head(s), tie) THEN <<r>> \o s
    ELSE <<Head(s)>> \o InsertDesc(r, Tail(s), tie)

RECURSIVE SortValues(_, _)
SortValues(s, tie) ==
    IF s = <<>> THEN <<>>
    ELSE InsertDesc(Head(s), SortValues(Tail(s), tie), tie)

Top10Unsorted(f, tie) ==
    SubSeq(f, 1, IF Len(f) < TopN THEN Len(f) ELSE TopN)

\* dashboard.py:78
Top10(f, tie) ==
    LET s == SortValues(f, tie)
    IN  SubSeq(s, 1, IF Len(s) < TopN THEN Len(s) ELSE TopN)

\* One run of dashboard.py with the sliders at pr and br.
RunDashboard(pr, br) ==
    LET loaded == LoadAndClean(csv)
        f == FilteredDf(loaded, pr, br)
    IN  /\ status' = "rendered"
        /\ widgets' = {"price", "beds"}
        /\ df' = loaded
        /\ price_range' = pr
        /\ beds_range' = br
        /\ filtered_df' = f
        /\ listings_count' = ListingsCount(f)
        /\ \E tie \in TieOrders : top10' = Top10(f, tie)
        /\ UNCHANGED <<script, csv>>
        /\ UNCHANGED dashVars

\* dashboard.py reads these columns by name; a file without one raises KeyError.
RequiredColumns == {"name", "neighbourhood_group", "room_type", "price", "beds",
                    "latitude", "longitude"}

\* The stops a slider handle can be dragged to, MaxDrag steps around `dflt`.
Stops(dflt, step, lo, hi) ==
    { dflt + k * step : k \in -MaxDrag..MaxDrag } \cap lo..hi

Abs(x) == IF x >= 0 THEN x ELSE -x

\* How many steps the four handles of dashboard.py are away from their defaults.
Dragged(pr, br) ==
    Abs(pr[1] - PriceDefaultLo) \div PriceSliderStep
    + Abs(pr[2] - PriceDefaultHi) \div PriceSliderStep
    + Abs(br[1] - BedsDefaultLo) + Abs(br[2] - BedsDefaultHi)

\* The session starts: the sliders hold their defaults.
StartDashboard ==
    /\ script = "dashboard.py"
    /\ status = "init"
    /\ RequiredColumns \subseteq csv.columns
    /\ RunDashboard(<<PriceDefaultLo, PriceDefaultHi>>, <<BedsDefaultLo, BedsDefaultHi>>)

\* The user moves one handle of the price slider; the script runs again.
SetPriceRange ==
    /\ script = "dashboard.py"
    /\ status = "rendered"
    /\ \E lo \in Stops(PriceDefaultLo, PriceSliderStep, PriceSliderMin, PriceSliderMax),
          hi \in Stops(PriceDefaultHi, PriceSliderStep, PriceSliderMin, PriceSliderMax) :
            /\ lo <= hi
            /\ (lo = price_range[1]) # (hi = price_range[2])
            /\ Dragged(<<lo, hi>>, beds_range) <= MaxDrag
            /\ RunDashboard(<<lo, hi>>, beds_range)

\* The user moves one handle of the beds slider; the script runs again.
SetBedsRange ==
    /\ script = "dashboard.py"
    /\ status = "rendered"
    /\ \E lo \in Stops(BedsDefaultLo, 1, BedsSliderMin, BedsSliderMax),
          hi \in Stops(BedsDefaultHi, 1, BedsSliderMin, BedsSliderMax) :
            /\ lo <= hi
            /\ (lo = beds_range[1]) # (hi = beds_range[2])
            /\ Dragged(price_range, <<lo, hi>>) <= MaxDrag
            /\ RunDashboard(price_range, <<lo, hi>>)

CrashDashboard ==
    /\ script = "dashboard.py"
    /\ status = "init"
    /\ ~(RequiredColumns \subseteq csv.columns)
    /\ status' = "error"
    /\ UNCHANGED <<script, csv, widgets, df, filtered_df>>
    /\ UNCHANGED dashboardVars
    /\ UNCHANGED dashVars

(***************************************************************************)
(* dash.py                                                                 *)
(***************************************************************************)
Range(s) == { s[i] : i \in DOMAIN s }

\* series.dropna().unique().tolist(): the distinct values, in order of first
\* appearance, without the missing ones.
RECURSIVE Unique(_)
Unique(s) ==
    IF s = <<>> THEN <<>>
    ELSE LET rest == Unique(SubSeq(s, 1, Len(s) - 1))
             last == s[Len(s)]
         IN  IF last = "" \/ last \in Range(rest) THEN rest ELSE Append(rest, last)

\* dash.py:17-19
RoomTypes(cols, d) ==
    IF "room_type" \in cols THEN Unique([i \in DOMAIN d |-> d[i].room_type]) ELSE <<>>

\* dash.py:22-26
NeighbourhoodGroups(cols, d) ==
    IF "neighbourhood_group" \in cols
    THEN Unique([i \in DOMAIN d |-> d[i].neighbourhood_group])
    ELSE <<>>

\* The numeric values of a column, missing ones skipped (min, max and mean
\* skip them); with `coerce`, after pd.to_numeric(errors="coerce").
Values(d, col, coerce) ==
    LET cells == [i \in DOMAIN d |-> IF coerce THEN ToNumeric(d[i][col]) ELSE d[i][col]]
        nums == SelectSeq(cells, IsNum)
    IN  [i \in DOMAIN nums |-> nums[i].v]

\* dash.py:20-21 raise when the price column holds text (int() of a string,
\* or a comparison of strings) or no number at all (int() of NaN).
PriceRaises(cols, d) ==
    /\ "price" \in cols
    /\ \/ \E i \in DOMAIN d : d[i].price.k = "text"
       \/ Values(d, "price", FALSE) = <<>>

\* dash.py:20
MinPrice(cols, d) ==
    IF "price" \in cols THEN Trunc(Min(Range(Values(d, "price", FALSE))))
    ELSE FallbackMinPrice

\* dash.py:21
MaxPrice(cols, d) ==
    IF "price" \in cols THEN Trunc(Max(Range(Values(d, "price", FALSE))))
    ELSE FallbackMaxPrice

\* default=options[:1]
DefaultSelection(options) == { options[i] : i \in DOMAIN options \cap {1} }

FilterByNoSkip(col, cols, d, sg, st, sp) ==
    IF col = "room_type" THEN SelectSeq(d, LAMBDA r : r.room_type \in st)
    ELSE IF col = "price" THEN SelectSeq(d, LAMBDA r : Ge(r.price, sp[1]) /\ Le(r.price, sp[2]))
    ELSE SelectSeq(d, LAMBDA r : r.neighbourhood_group \in sg)

\* dash.py:56-61, one of the three `if` statements.
FilterBy(col, cols, d, sg, st, sp) ==
    IF col \notin cols THEN d
    ELSE IF col = "room_type" THEN SelectSeq(d, LAMBDA r : r.room_type \in st)
    ELSE IF col = "price" THEN SelectSeq(d, LAMBDA r : Ge(r.price, sp[1]) /\ Le(r.price, sp[2]))
    ELSE SelectSeq(d, LAMBDA r : r.neighbourhood_group \in sg)

RECURSIVE FilterChain(_, _, _, _, _, _)
FilterChain(order, cols, d, sg, st, sp) ==
    IF order = <<>> THEN d
    ELSE FilterChain(Tail(order), cols, FilterBy(Head(order), cols, d, sg, st, sp),
                     sg, st, sp)

FilterOrder == <<"room_type", "price", "neighbourhood_group">>

\* dash.py:56-61
FilterDataset(cols, d, sg, st, sp) ==
    FilterChain(FilterOrder, cols, d, sg, st, sp)

\* f"{x:.2f}" of a mean: the mean of `vals` (hundredths) rounded to two
\* decimals, ties to even as the float formatting does when the tie is exact.
NA == [text |-> "N/A", hundredths |-> 0]

FormatMean(vals) ==
    IF vals = <<>> THEN [text |-> "nan", hundredths |-> 0]
    ELSE LET n == Len(vals)
             q == Sum(vals) \div n
             r == Sum(vals) % n
         IN  [text |-> "number",
              hundredths |-> IF 2 * r > n \/ (2 * r = n /\ q % 2 = 1) THEN q + 1 ELSE q]

\* dash.py:76-85
Kpis(cols, f) ==
    [total |-> Len(f),
     avg_price |-> IF "price" \in cols THEN FormatMean(Values(f, "price", FALSE)) ELSE NA,
     avg_rating |-> IF "rating" \in cols THEN FormatMean(Values(f, "rating", TRUE)) ELSE NA]

\* dash.py:127-131: with both columns in the file the rating column of the
\* filtered table is made numeric in place, before the map section reads it.
CoerceRating(cols, f) ==
    IF "room_type" \in cols /\ "rating" \in cols
    THEN [i \in DOMAIN f |-> [f[i] EXCEPT !.rating = ToNumeric(@)]]
    ELSE f

\* dash.py:158  not df[["latitude", "longitude"]].dropna().empty
MapHasData(f) ==
    \E i \in DOMAIN f : f[i].latitude.k # "nan" /\ f[i].longitude.k # "nan"

MapRowsLatitudeOnly(f) ==
    SelectSeq(f, LAMBDA r : r.latitude.k # "nan")

\* dash.py:160  df.dropna(subset=["latitude", "longitude"])
MapRows(f) ==
    SelectSeq(f, LAMBDA r : r.latitude.k # "nan" /\ r.longitude.k # "nan")

NoMap == [kind |-> "none", rows |-> <<>>, message |-> ""]

\* dash.py:156-182
MapOut(cols, f) ==
    IF "latitude" \in cols /\ "longitude" \in cols
    THEN IF MapHasData(f)
         THEN [kind |-> "map", rows |-> MapRows(f), message |-> ""]
         ELSE [kind |-> "info", rows |-> <<>>, message |-> NoMapMessage]
    ELSE NoMap

\* dash.py:20-21 raise: the run ends with the table loaded and nothing shown.
CrashDash ==
    /\ status' = "error"
    /\ df' = ReadCsv(csv)
    /\ UNCHANGED <<script, csv, widgets, filtered_df>>
    /\ UNCHANGED dashboardVars
    /\ UNCHANGED dashVars

\* One run of dash.py with the widgets at sg, st and sp.  (A slider whose
\* two bounds coincide is taken to render.)
RunDash(sg, st, sp) ==
    LET d == ReadCsv(csv)
        cols == csv.columns
        f == FilterDataset(cols, d, sg, st, sp)
    IN  /\ status' = "rendered"
        /\ widgets' = {"neighbourhood_group", "room_type", "price"}
        /\ df' = d
        /\ room_types' = RoomTypes(cols, d)
        /\ min_price' = MinPrice(cols, d)
        /\ max_price' = MaxPrice(cols, d)
        /\ neighbourhood_groups' = NeighbourhoodGroups(cols, d)
        /\ selected_neighbourhood_group' = sg
        /\ selected_room_type' = st
        /\ selected_price' = sp
        /\ filtered_df' = f
        /\ kpis' = Kpis(cols, f)
        /\ map_out' = MapOut(cols, CoerceRating(cols, f))
        /\ UNCHANGED <<script, csv>>
        /\ UNCHANGED dashboardVars

\* The session starts: every widget holds its default.
StartDash ==
    /\ script = "dash.py"
    /\ status = "init"
    /\ LET d == ReadCsv(csv)
           cols == csv.columns
       IN  IF PriceRaises(cols, d) THEN CrashDash
           ELSE RunDash(DefaultSelection(NeighbourhoodGroups(cols, d)),
                        DefaultSelection(RoomTypes(cols, d)),
                        <<MinPrice(cols, d), MaxPrice(cols, d)>>)

\* The user changes the neighbourhood-group multiselect; the script runs again.
SelectNeighbourhoodGroup ==
    /\ script = "dash.py"
    /\ status = "rendered"
    /\ \E sg \in SUBSET Range(neighbourhood_groups) :
        /\ sg # selected_neighbourhood_group
        /\ IF PriceRaises(csv.columns, ReadCsv(csv)) THEN CrashDash
           ELSE RunDash(sg, selected_room_type, selected_price)

\* The user changes the room-type multiselect; the script runs again.
SelectRoomType ==
    /\ script = "dash.py"
    /\ status = "rendered"
    /\ \E st \in SUBSET Range(room_types) :
        /\ st # selected_room_type
        /\ IF PriceRaises(csv.columns, ReadCsv(csv)) THEN CrashDash
           ELSE RunDash(selected_neighbourhood_group, st, selected_price)

\* The user moves one handle of the price slider; the script runs again.
SetSelectedPrice ==
    /\ script = "dash.py"
    /\ status = "rendered"
    /\ \E lo \in min_price..(min_price + MaxDrag), hi \in (max_price - MaxDrag)..max_price :
        /\ min_price <= lo /\ lo <= hi /\ hi <= max_price
        /\ (lo = selected_price[1]) # (hi = selected_price[2])
        /\ (lo - min_price) + (max_price - hi) <= MaxDrag
        /\ IF PriceRaises(csv.columns, ReadCsv(csv)) THEN CrashDash
           ELSE RunDash(selected_neighbourhood_group, selected_room_type, <<lo, hi>>)

(***************************************************************************)
(* Specifications.                                                         *)
(***************************************************************************)
Scripts == {"dashboard.py", "dash.py"}

Blank ==
    /\ status = "init"
    /\ widgets = {}
    /\ df = <<>>
    /\ filtered_df = <<>>
    /\ price_range = <<0, 0>>
    /\ beds_range = <<0, 0>>
    /\ listings_count = [g \in {} |-> 0]
    /\ top10 = <<>>
    /\ room_types = <<>>
    /\ min_price = 0
    /\ max_price = 0
    /\ neighbourhood_groups = <<>>
    /\ selected_neighbourhood_group = {}
    /\ selected_room_type = {}
    /\ selected_price = <<0, 0>>
    /\ kpis = [total |-> 0, avg_price |-> NA, avg_rating |-> NA]
    /\ map_out = NoMap

\* Before the first run: some data_airbnb.csv on disk, nothing on the page.
Init ==
    /\ script \in Scripts
    /\ csv \in { CsvFile(cols, t) : cols \in ColumnSets, t \in Tables(RowPool, 0, MaxRows) }
    /\ Blank

Next ==
    \/ StartDashboard
    \/ CrashDashboard
    \/ SetPriceRange
    \/ SetBedsRange
    \/ StartDash
    \/ SelectNeighbourhoodGroup
    \/ SelectRoomType
    \/ SetSelectedPrice

Spec == Init /\ [][Next]_vars

\* The ranking of dashboard.py over files long enough to fill it.
InitTop ==
    /\ script = "dashboard.py"
    /\ csv \in { CsvFile(Columns, TopPrefix \o t) :
                    t \in Tables(TopPool, 0, MaxRowsTop - Len(TopPrefix)) }
    /\ Blank

NextTop ==
    \/ StartDashboard
    \/ SetPriceRange

SpecTop == InitTop /\ [][NextTop]_vars

(***************************************************************************)
(* Properties.  They are stated over the CSV and the widget values, not    *)
(* with the operators the runs are built from.                             *)
(***************************************************************************)
Shown(s) == status = "rendered" /\ script = s

Present(c) == c.k # "nan"
Numeric(c) == c.k = "num"
Within(c, lo, hi) == c.k = "num" /\ lo * 100 <= c.v /\ c.v <= hi * 100

Labels(d) == { d[i].idx : i \in DOMAIN d }
Distinct(d) == \A i, j \in DOMAIN d : d[i].idx = d[j].idx => i = j
Ascending(d) == \A i, j \in DOMAIN d : i < j => d[i].idx < d[j].idx

\* The row of the file behind a loaded row, cell by cell.
FromFile(r) ==
    /\ r.idx + 1 \in DOMAIN csv.rows
    /\ LET c == csv.rows[r.idx + 1]
       IN  /\ r.name = c.name /\ r.neighbourhood_group = c.neighbourhood_group
           /\ r.room_type = c.room_type /\ r.latitude = c.latitude
           /\ r.longitude = c.longitude /\ r.rating = c.rating
           /\ (Numeric(c.price) => r.price = c.price)
           /\ (Numeric(c.beds) => r.beds = c.beds)

\* What the current dash.py selection asks of a row, column by column.
KeepsDash(r) ==
    /\ "room_type" \in csv.columns => r.room_type \in selected_room_type
    /\ "price" \in csv.columns => Within(r.price, selected_price[1], selected_price[2])
    /\ "neighbourhood_group" \in csv.columns =>
            r.neighbourhood_group \in selected_neighbourhood_group

\* What the current dashboard.py selection asks of a row.
KeepsDashboard(r) ==
    /\ Within(r.price, price_range[1], price_range[2])
    /\ Within(r.beds, beds_range[1], beds_range[2])

Orders ==
    { o \in [1..3 -> Range(FilterOrder)] : Range(o) = Range(FilterOrder) }

\* C1: the filtered subset is exactly the loaded rows that satisfy every
\* active predicate, range bounds inclusive; no foreign row, no duplicate, and
\* in dash.py the same subset whatever the order of the three filters.
C1_FilterExact ==
    status = "rendered" =>
        /\ Distinct(filtered_df)
        /\ Range(filtered_df) \subseteq Range(df)
        /\ script = "dashboard.py" =>
                \A r \in Range(df) : r \in Range(filtered_df) <=> KeepsDashboard(r)
        /\ script = "dash.py" =>
                /\ \A r \in Range(df) : r \in Range(filtered_df) <=> KeepsDash(r)
                /\ \A o \in Orders :
                        FilterChain(o, csv.columns, df, selected_neighbourhood_group,
                                    selected_room_type, selected_price) = filtered_df

\* A row on the upper bound of the beds slider is shown while another loaded
\* row is filtered out.
C1_Witness ==
    /\ Shown("dashboard.py")
    /\ \E r \in Range(filtered_df) : r.beds.v = beds_range[2] * 100
    /\ \E r \in Range(df) : r \notin Range(filtered_df)

\* C2: after dashboard.py's load the table holds exactly the rows of the file
\* with latitude and longitude present and price and beds numeric, unchanged,
\* so every row that reaches the filter has all four defined.
C2_LoadExact ==
    Shown("dashboard.py") =>
        /\ Labels(df) = { i - 1 : i \in { j \in DOMAIN csv.rows :
                            /\ Present(csv.rows[j].latitude)
                            /\ Present(csv.rows[j].longitude)
                            /\ Numeric(csv.rows[j].price)
                            /\ Numeric(csv.rows[j].beds) } }
        /\ Distinct(df) /\ Ascending(df)
        /\ \A r \in Range(df) :
                /\ FromFile(r)
                /\ Numeric(r.price) /\ Numeric(r.beds)
                /\ Present(r.latitude) /\ Present(r.longitude)

\* A file with a non-numeric price on one line and a clean line: the first is
\* dropped, the second loaded.
C2_Witness ==
    /\ Shown("dashboard.py")
    /\ \E i \in DOMAIN csv.rows : csv.rows[i].price.k = "text"
    /\ Len(df) >= 1
    /\ Len(df) < Len(csv.rows)

Dimensions == {"room_type", "price", "beds", "neighbourhood_group"}

\* C3 as stated: each script offers and applies a filter on all four
\* dimensions, room type, price range, bed count and neighbourhood group.
C3_AllFourFilters ==
    status = "rendered" =>
        /\ widgets = Dimensions
        /\ script = "dashboard.py" => \A r \in Range(filtered_df) : KeepsDashboard(r)
        /\ script = "dash.py" => \A r \in Range(filtered_df) : KeepsDash(r)

\* C3 amended: dashboard.py filters on price range and bed count only,
\* dash.py on room type, price range and neighbourhood group only; every row
\* a script shows satisfies the selection on the dimensions that script filters.
C3_FiltersPerScript ==
    status = "rendered" =>
        /\ script = "dashboard.py" =>
                /\ widgets = {"price", "beds"}
                /\ \A r \in Range(filtered_df) : KeepsDashboard(r)
        /\ script = "dash.py" =>
                /\ widgets = {"room_type", "price", "neighbourhood_group"}
                /\ \A r \in Range(filtered_df) : KeepsDash(r)

\* dashboard.py shows rows of two room types and two boroughs at once, one of
\* them with more beds than the default range allows: only the two sliders
\* decide.
C3_Witness ==
    /\ Shown("dashboard.py")
    /\ \E r, q \in Range(filtered_df) :
            /\ r.room_type # q.room_type
            /\ r.neighbourhood_group # q.neighbourhood_group
            /\ q.beds.v > BedsDefaultHi * 100

\* The rows of the file a fresh run of the script loads.
Loads(c) ==
    IF script = "dashboard.py"
    THEN /\ Present(c.latitude) /\ Present(c.longitude)
         /\ Numeric(c.price) /\ Numeric(c.beds)
    ELSE TRUE

\* Whether the current selection keeps row c of the file.
KeepsFile(c) ==
    IF script = "dashboard.py"
    THEN /\ Within(c.price, price_range[1], price_range[2])
         /\ Within(c.beds, beds_range[1], beds_range[2])
    ELSE KeepsDash(c)

\* Everything on the page as a function of the file and the current selection.
CurrentOnly ==
    /\ Labels(filtered_df) =
            { i - 1 : i \in { j \in DOMAIN csv.rows :
                                Loads(csv.rows[j]) /\ KeepsFile(csv.rows[j]) } }
    /\ Distinct(filtered_df) /\ Ascending(filtered_df)
    /\ \A r \in Range(filtered_df) : FromFile(r)
    /\ script = "dashboard.py" =>
            /\ listings_count = ListingsCount(filtered_df)
            /\ top10 \in { Top10(filtered_df, tie) : tie \in TieOrders }
    /\ script = "dash.py" =>
            /\ kpis = Kpis(csv.columns, filtered_df)
            /\ kpis.total = Cardinality({ j \in DOMAIN csv.rows : KeepsFile(csv.rows[j]) })
            /\ map_out = MapOut(csv.columns, CoerceRating(csv.columns, filtered_df))
            /\ Range(room_types) = { csv.rows[j].room_type : j \in DOMAIN csv.rows } \ {""}
            /\ Range(neighbourhood_groups) =
                    { csv.rows[j].neighbourhood_group : j \in DOMAIN csv.rows } \ {""}

\* C4: after every run the filtered subset and what is derived from it are
\* those of the current selection applied to the whole file, and the options
\* and slider bounds of dash.py are the same as in the run before.
C4_CurrentSelectionOnly ==
    [][ status' = "rendered" =>
            /\ CurrentOnly'
            /\ status = "rendered" =>
                    /\ room_types' = room_types
                    /\ neighbourhood_groups' = neighbourhood_groups
                    /\ min_price' = min_price
                    /\ max_price' = max_price ]_vars

\* dash.py after the room-type selection was widened beyond its default: rows
\* of a room type the first run had filtered out are shown.
C4_Witness ==
    /\ Shown("dash.py")
    /\ Cardinality(selected_room_type) = 2
    /\ \E r \in Range(filtered_df) : r.room_type # room_types[1]

\* C5: no run writes the file, and every run after the first loads the same
\* rows from it.
C5_NoWritePath ==
    [][ /\ csv' = csv
        /\ (status = "rendered" /\ status' = "rendered") =>
                /\ df' = df
                /\ \A r \in Range(df') : FromFile(r)' ]_vars

\* A run after a slider was moved: the page shows fewer rows than the table
\* loaded again from the file.
C5_Witness ==
    /\ Shown("dashboard.py")
    /\ price_range # <<PriceDefaultLo, PriceDefaultHi>>
    /\ Len(df) = 2
    /\ Len(filtered_df) = 1

RECURSIVE Total(_, _)
Total(f, S) ==
    IF S = {} THEN 0
    ELSE LET x == CHOOSE y \in S : TRUE IN f[x] + Total(f, S \ {x})

\* C6 as stated: the borough table of dashboard.py has one entry per borough
\* of the filtered subset, each count is the number of filtered rows of that
\* borough, and the counts add up to the size of the filtered subset.
C6_CountsPerBorough ==
    Shown("dashboard.py") =>
        LET rowsOf(g) == { i \in DOMAIN filtered_df : filtered_df[i].neighbourhood_group = g }
            keys == { filtered_df[i].neighbourhood_group : i \in DOMAIN filtered_df } \ {""}
        IN  /\ DOMAIN listings_count = keys
            /\ \A g \in keys : listings_count[g] = Cardinality(rowsOf(g))
            /\ Total(listings_count, DOMAIN listings_count) = Len(filtered_df)

\* C7: the ranking holds min(10, n) rows of the filtered subset, in
\* non-increasing order of price, and no row left out is dearer than a ranked one.
C7_Top10 ==
    Shown("dashboard.py") =>
        /\ Len(top10) = (IF Len(filtered_df) < 10 THEN Len(filtered_df) ELSE 10)
        /\ Range(top10) \subseteq Range(filtered_df)
        /\ Distinct(top10)
        /\ \A i, j \in DOMAIN top10 : i < j => top10[i].price.v >= top10[j].price.v
        /\ \A r \in Range(filtered_df) \ Range(top10) :
                \A t \in Range(top10) : ~(r.price.v > t.price.v)

\* Eleven rows pass the filter, ten are ranked, at two different prices, and
\* the ranking is not the file's order.
C7_Witness ==
    /\ Shown("dashboard.py")
    /\ Len(filtered_df) = 11
    /\ Len(top10) = 10
    /\ top10[1].price.v > top10[10].price.v
    /\ top10 # SubSeq(filtered_df, 1, 10)

\* C8 as stated: with the price slider of dash.py at its default, the full
\* range, Total Listings counts every loaded row whose room type and
\* neighbourhood group are selected.  (Checked where the slider has more than
\* one stop, so that the violation does not rest on a one-stop slider.)
C8_DefaultRangeKeepsAll ==
    (/\ Shown("dash.py")
     /\ min_price < max_price
     /\ selected_price = <<min_price, max_price>>) =>
        kpis.total =
            Cardinality({ i \in DOMAIN df :
                /\ "room_type" \in csv.columns => df[i].room_type \in selected_room_type
                /\ "neighbourhood_group" \in csv.columns =>
                        df[i].neighbourhood_group \in selected_neighbourhood_group })

C10_AbsentColumns ==
    Shown("dash.py") =>
        /\ Labels(filtered_df) = { r.idx : r \in { q \in Range(df) : KeepsDash(q) } }
        /\ "room_type" \notin csv.columns =>
                room_types = <<>> /\ selected_room_type = {}
        /\ "neighbourhood_group" \notin csv.columns =>
                neighbourhood_groups = <<>> /\ selected_neighbourhood_group = {}
        /\ "price" \notin csv.columns => min_price = 0 /\ max_price = 1000
        /\ kpis.avg_price.text = "N/A" <=> "price" \notin csv.columns
        /\ kpis.avg_rating.text = "N/A" <=> "rating" \notin csv.columns

\* A file without a price column: the price filter removes nothing, the room
\* type filter still removes a row, and Average Price reads N/A.
C10_Witness ==
    /\ Shown("dash.py")
    /\ "price" \notin csv.columns
    /\ selected_price # <<0, 1000>>
    /\ Len(filtered_df) = 1
    /\ Len(df) = 2
    /\ kpis.avg_price.text = "N/A"

=============================================================================
